---- MODULE Spec2Model ----
(***************************************************************************)
(* Signature-Engine: the coordinate transformer, the aspect-fit            *)
(* calculator, the /sign-pdf pipeline and the /verify-hash lookup of       *)
(* backend/server.js, with the pixel/percent layer and the field editor    *)
(* (drop, drag, resize, select, delete, upload) of frontend/src/App.jsx.   *)
(*                                                                         *)
(* JavaScript Numbers are modelled as exact rationals n/d (d > 0, lowest   *)
(* terms) extended with +Infinity (1/0), -Infinity (-1/0) and NaN (0/0).   *)
(* IEEE-754 rounding error and the sign of zero are not modelled, so every *)
(* numeric statement below is a statement about the algebra the code       *)
(* computes, not about the last bits of a double.                          *)
(***************************************************************************)
EXTENDS Integers, Sequences, FiniteSets, TLC

VARIABLES probe, handler, resp, db, log, verify, editor

vars == <<probe, handler, resp, db, log, verify, editor>>

(***************************************************************************)
(* Bounds of the model.                                                    *)
(***************************************************************************)
PctStep == 25
MaxBox == 4
MaxImg == 3
MaxFields == 3
MaxPairFields == 2
MaxClock == 2
MaxVerifies == 2
MaxSameFields == 2
MaxConcFields == 2

(***************************************************************************)
(* Numbers.                                                                *)
(***************************************************************************)
RECURSIVE GCD(_, _)
GCD(a, b) == IF b = 0 THEN a ELSE GCD(b, a % b)

Abs(a) == IF a < 0 THEN -a ELSE a

Sgn(a) == IF a < 0 THEN -1 ELSE IF a > 0 THEN 1 ELSE 0

\* n/d in lowest terms with d >= 0; d = 0 gives +Infinity, -Infinity or NaN.
Rat(n, d) ==
    IF d = 0 THEN [n |-> Sgn(n), d |-> 0]
    ELSE LET g == GCD(Abs(n), Abs(d))
         IN  [n |-> (Sgn(d) * n) \div g, d |-> Abs(d) \div g]

Num(k) == [n |-> k, d |-> 1]

NaN == [n |-> 0, d |-> 0]

IsNaN(a) == a.d = 0 /\ a.n = 0

IsFinite(a) == a.d > 0

\* Common factors are cancelled before multiplying, to keep the integers small.
Mul(a, b) ==
    IF a.d = 0 \/ b.d = 0
    THEN Rat(a.n * b.n, a.d * b.d)
    ELSE LET g == GCD(Abs(a.n), b.d)
             h == GCD(Abs(b.n), a.d)
         IN  Rat((a.n \div g) * (b.n \div h), (a.d \div h) * (b.d \div g))

Recip(a) == Rat(Sgn(a.n) * a.d, Abs(a.n))

Div(a, b) == Mul(a, Recip(b))

Add(a, b) ==
    IF a.d = 0 /\ b.d = 0
    THEN (IF a.n = b.n THEN a ELSE NaN)
    ELSE IF a.d = 0 \/ b.d = 0
    THEN Rat(a.n * b.d + b.n * a.d, 0)
    ELSE LET g == GCD(a.d, b.d)
         IN  Rat(a.n * (b.d \div g) + b.n * (a.d \div g), (a.d \div g) * b.d)

Neg(a) == [n |-> -a.n, d |-> a.d]

Sub(a, b) == Add(a, Neg(b))

Lt(a, b) ==
    IF IsNaN(a) \/ IsNaN(b) THEN FALSE
    ELSE IF a.d = 0 /\ b.d = 0 THEN a.n < b.n
    ELSE IF a.d = 0 \/ b.d = 0 THEN a.n * b.d < b.n * a.d
    ELSE LET g == GCD(a.d, b.d)
         IN  a.n * (b.d \div g) < b.n * (a.d \div g)

Gt(a, b) == Lt(b, a)

Le(a, b) == ~IsNaN(a) /\ ~IsNaN(b) /\ ~Lt(b, a)

Ge(a, b) == Le(b, a)

\* Math.min: NaN when either argument is NaN.
MathMin(a, b) ==
    IF IsNaN(a) \/ IsNaN(b) THEN NaN ELSE IF Lt(b, a) THEN b ELSE a

Hundred == Num(100)

Zero == Num(0)

(***************************************************************************)
(* server.js: the coordinate transform and the aspect-ratio fit.           *)
(***************************************************************************)
\* A plausible slip: the flip of a point, forgetting the box's own height.
transformPointFlipOnly(percentCoords, pdfPageDimensions) ==
    LET pageWidth == pdfPageDimensions.width
        pageHeight == pdfPageDimensions.height
        yPointsFromTop == Mul(Div(percentCoords.y, Hundred), pageHeight)
    IN  [x |-> Mul(Div(percentCoords.x, Hundred), pageWidth),
         y |-> Sub(pageHeight, yPointsFromTop),
         width |-> Mul(Div(percentCoords.width, Hundred), pageWidth),
         height |-> Mul(Div(percentCoords.height, Hundred), pageHeight)]

\* A plausible slip: no origin flip at all (the top-left y passed through).
transformNoFlip(percentCoords, pdfPageDimensions) ==
    LET pageWidth == pdfPageDimensions.width
        pageHeight == pdfPageDimensions.height
    IN  [x |-> Mul(Div(percentCoords.x, Hundred), pageWidth),
         y |-> Mul(Div(percentCoords.y, Hundred), pageHeight),
         width |-> Mul(Div(percentCoords.width, Hundred), pageWidth),
         height |-> Mul(Div(percentCoords.height, Hundred), pageHeight)]

transformCoordinatesToPDF(percentCoords, pdfPageDimensions) ==
    LET xPercent == percentCoords.x
        yPercent == percentCoords.y
        widthPercent == percentCoords.width
        heightPercent == percentCoords.height
        pageWidth == pdfPageDimensions.width
        pageHeight == pdfPageDimensions.height
        xPoints == Mul(Div(xPercent, Hundred), pageWidth)
        yPointsFromTop == Mul(Div(yPercent, Hundred), pageHeight)
        widthPoints == Mul(Div(widthPercent, Hundred), pageWidth)
        heightPoints == Mul(Div(heightPercent, Hundred), pageHeight)
        yPointsFromBottom == Sub(Sub(pageHeight, yPointsFromTop), heightPoints)
    IN  [x |-> xPoints, y |-> yPointsFromBottom,
         width |-> widthPoints, height |-> heightPoints]

\* The branch taken when the image is relatively wider than the box.
fitToWidth(boxWidth, boxHeight, imgRatio) ==
    LET finalWidth == boxWidth
        finalHeight == Div(boxWidth, imgRatio)
    IN  [width |-> finalWidth, height |-> finalHeight,
         offsetX |-> Zero,
         offsetY |-> Div(Sub(boxHeight, finalHeight), Num(2))]

\* The branch taken otherwise.
fitToHeight(boxWidth, boxHeight, imgRatio) ==
    LET finalHeight == boxHeight
        finalWidth == Mul(boxHeight, imgRatio)
    IN  [width |-> finalWidth, height |-> finalHeight,
         offsetX |-> Div(Sub(boxWidth, finalWidth), Num(2)),
         offsetY |-> Zero]

\* A plausible slip: the comparison of the two ratios the wrong way round.
fitBranchSwapped(boxWidth, boxHeight, imgWidth, imgHeight) ==
    LET boxRatio == Div(boxWidth, boxHeight)
        imgRatio == Div(imgWidth, imgHeight)
    IN  IF Lt(imgRatio, boxRatio)
        THEN fitToWidth(boxWidth, boxHeight, imgRatio)
        ELSE fitToHeight(boxWidth, boxHeight, imgRatio)

\* A plausible slip: the whole slack as the offset instead of half of it.
fitNotCentred(boxWidth, boxHeight, imgWidth, imgHeight) ==
    LET boxRatio == Div(boxWidth, boxHeight)
        imgRatio == Div(imgWidth, imgHeight)
        w == fitToWidth(boxWidth, boxHeight, imgRatio)
        h == fitToHeight(boxWidth, boxHeight, imgRatio)
    IN  IF Gt(imgRatio, boxRatio)
        THEN [w EXCEPT !.offsetY = Sub(boxHeight, w.height)]
        ELSE [h EXCEPT !.offsetX = Sub(boxWidth, h.width)]

calculateAspectRatioFit(boxWidth, boxHeight, imgWidth, imgHeight) ==
    LET boxRatio == Div(boxWidth, boxHeight)
        imgRatio == Div(imgWidth, imgHeight)
    IN  IF Gt(imgRatio, boxRatio)
        THEN fitToWidth(boxWidth, boxHeight, imgRatio)
        ELSE fitToHeight(boxWidth, boxHeight, imgRatio)

(***************************************************************************)
(* App.jsx: the editor's pixel/percent layer. scale, pageWidth and         *)
(* pageHeight are component state there and parameters here.               *)
(***************************************************************************)
pixelToPercentage(pixelX, pixelY, pixelWidth, pixelHeight, scale, page) ==
    LET actualX == Div(pixelX, scale)
        actualY == Div(pixelY, scale)
        actualWidth == Div(pixelWidth, scale)
        actualHeight == Div(pixelHeight, scale)
    IN  [x |-> Mul(Div(actualX, page.width), Hundred),
         y |-> Mul(Div(actualY, page.height), Hundred),
         width |-> Mul(Div(actualWidth, page.width), Hundred),
         height |-> Mul(Div(actualHeight, page.height), Hundred)]

percentageToPixelUnscaled(field, scale, page) ==
    [x |-> Mul(Div(field.x, Hundred), page.width),
     y |-> Mul(Div(field.y, Hundred), page.height),
     width |-> Mul(Div(field.width, Hundred), page.width),
     height |-> Mul(Div(field.height, Hundred), page.height)]

percentageToPixel(field, scale, page) ==
    [x |-> Mul(Mul(Div(field.x, Hundred), page.width), scale),
     y |-> Mul(Mul(Div(field.y, Hundred), page.height), scale),
     width |-> Mul(Mul(Div(field.width, Hundred), page.width), scale),
     height |-> Mul(Mul(Div(field.height, Hundred), page.height), scale)]

(***************************************************************************)
(* The pure functions applied to inputs drawn from bounded sets.           *)
(***************************************************************************)
PctGrid ==
    {k * PctStep : k \in 0..(100 \div PctStep)}
        \cup {100 - k * PctStep : k \in 0..(100 \div PctStep)}

\* Corners, including some left of / above the page and fractional ones.
PctXY == {Num(p) : p \in PctGrid} \cup {Num(-PctStep), Num(10), Num(20), Rat(100, 3)}

\* Sizes, including some wider / taller than the page.
PctWH == {Num(p) : p \in PctGrid \ {0}} \cup {Num(6), Rat(100, 3), Rat(200, 3)}

Placements == [x : PctXY, y : PctXY, width : PctWH, height : PctWH]

\* US Letter, A4 (the editor's default 595 x 842), A4 landscape, a fractional size.
PageSizes ==
    {[width |-> Num(612), height |-> Num(792)],
     [width |-> Num(595), height |-> Num(842)],
     [width |-> Num(842), height |-> Num(595)],
     [width |-> Rat(1225, 2), height |-> Rat(1585, 2)]}

BoxDims == {Num(k) : k \in 1..MaxBox} \cup {Num(153), Rat(1188, 25)}

ImgDims == {Num(k) : k \in 1..MaxImg} \cup {Num(300), Num(100)}

InRange(p) ==
    /\ Le(Zero, p.x)
    /\ Le(Zero, p.y)
    /\ Le(Add(p.x, p.width), Hundred)
    /\ Le(Add(p.y, p.height), Hundred)
    /\ Gt(p.width, Zero)
    /\ Gt(p.height, Zero)

NoProbe == [op |-> "none"]

TransformProbes ==
    {[op |-> "transform", done |-> FALSE, p |-> p, page |-> pg] :
        p \in Placements, pg \in PageSizes}

FitProbes ==
    {[op |-> "fit", done |-> FALSE, boxWidth |-> bw, boxHeight |-> bh,
      imgWidth |-> iw, imgHeight |-> ih] :
        bw \in BoxDims, bh \in BoxDims, iw \in ImgDims, ih \in ImgDims}

\* Calls with a box or an image of height zero (a field of height 0 %, an
\* image that decodes to no rows).
FitZeroProbes ==
    {[op |-> "fit", done |-> FALSE, boxWidth |-> Num(100), boxHeight |-> bh,
      imgWidth |-> iw, imgHeight |-> ih] :
        bh \in {Zero, Num(50)}, iw \in {Zero, Num(300)}, ih \in {Zero, Num(100)}}

\* Pixel rectangles: at the origin, inside the view, fractional, off the view.
PixelRects ==
    {[x |-> Zero, y |-> Zero, width |-> Num(150), height |-> Num(50)],
     [x |-> Num(100), y |-> Num(200), width |-> Num(150), height |-> Num(50)],
     [x |-> Rat(1, 3), y |-> Rat(2, 7), width |-> Num(50), height |-> Num(30)],
     [x |-> Num(-20), y |-> Num(900), width |-> Num(270), height |-> Num(1)]}

\* What containerRef.current.clientWidth may be.
ProbeClientWidths == {Num(1000), Num(640), Num(440)}

\* Math.min(clientWidth - 40, 800), line 46 of App.jsx.
containerWidthFor(clientWidth) == MathMin(Sub(clientWidth, Num(40)), Num(800))

NoRect == [x |-> Zero, y |-> Zero, width |-> Zero, height |-> Zero]

\* A rectangle in pixels about to be stored as a field, on a page shown in a
\* container of some width.
PixelProbes ==
    {[op |-> "pixel", done |-> FALSE, r |-> r, page |-> pg,
      placedAt |-> containerWidthFor(cw), containerWidth |-> containerWidthFor(cw),
      stored |-> NoRect, shown |-> NoRect] :
        r \in PixelRects, pg \in PageSizes, cw \in ProbeClientWidths}

\* The rectangle is stored in percent, as handleDrop and the two mousemove
\* listeners store it, and rendered from what was stored.
DoPlace ==
    /\ probe.op = "pixel"
    /\ ~probe.done
    /\ LET scale == Div(probe.containerWidth, probe.page.width)
           percentCoords == pixelToPercentage(probe.r.x, probe.r.y, probe.r.width,
                                              probe.r.height, scale, probe.page)
       IN  probe' = [probe EXCEPT !.done = TRUE, !.stored = percentCoords,
                         !.shown = percentageToPixel(percentCoords, scale, probe.page)]
    /\ UNCHANGED <<handler, resp, db, log, verify, editor>>

\* The window is resized: setContainerWidth, then the field is rendered again
\* from what is stored.
DoUpdateWidth(clientWidth) ==
    /\ probe.op = "pixel"
    /\ probe.done
    /\ containerWidthFor(clientWidth) # probe.containerWidth
    /\ LET scale == Div(containerWidthFor(clientWidth), probe.page.width)
       IN  probe' = [probe EXCEPT !.containerWidth = containerWidthFor(clientWidth),
                         !.shown = percentageToPixel(probe.stored, scale, probe.page)]
    /\ UNCHANGED <<handler, resp, db, log, verify, editor>>

DoTransform ==
    /\ probe.op = "transform"
    /\ ~probe.done
    /\ probe' = [op |-> "transform", done |-> TRUE, p |-> probe.p,
                 page |-> probe.page,
                 out |-> transformCoordinatesToPDF(probe.p, probe.page)]
    /\ UNCHANGED <<handler, resp, db, log, verify, editor>>

\* threw: whether the call ended in an exception. The function has no throw
\* statement, and a division by zero is Infinity or NaN in JavaScript.
DoFit ==
    /\ probe.op = "fit"
    /\ ~probe.done
    /\ probe' = [op |-> "fit", done |-> TRUE,
                 boxWidth |-> probe.boxWidth, boxHeight |-> probe.boxHeight,
                 imgWidth |-> probe.imgWidth, imgHeight |-> probe.imgHeight,
                 out |-> calculateAspectRatioFit(probe.boxWidth, probe.boxHeight,
                                                 probe.imgWidth, probe.imgHeight),
                 threw |-> FALSE]
    /\ UNCHANGED <<handler, resp, db, log, verify, editor>>

TransformDone == probe.op = "transform" /\ probe.done

FitDone == probe.op = "fit" /\ probe.done

FitInputsPositive ==
    /\ Gt(probe.boxWidth, Zero) /\ Gt(probe.boxHeight, Zero)
    /\ Gt(probe.imgWidth, Zero) /\ Gt(probe.imgHeight, Zero)

(***************************************************************************)
(* Claims about the pure functions (checked under SpecFn).                 *)
(***************************************************************************)
\* C1: transformCoordinatesToPDF returns y = pageHeight - (y/100)*pageHeight -
\* (height/100)*pageHeight, i.e. 100*y = pageHeight*(100 - y% - height%): a
\* top-anchored box (y% = 0) lands at pageHeight - heightPoints, a bottom-anchored
\* one (y% + height% = 100) at 0; x and width are the plain proportions of
\* pageWidth, with no flip.
C1_OriginFlip ==
    TransformDone =>
        LET p == probe.p
            pg == probe.page
            out == probe.out
        IN  /\ out.y = Sub(Sub(pg.height, Mul(Div(p.y, Hundred), pg.height)),
                           Mul(Div(p.height, Hundred), pg.height))
            /\ Mul(out.y, Hundred)
                   = Mul(pg.height, Sub(Sub(Hundred, p.y), p.height))
            /\ (p.y = Zero => out.y = Sub(pg.height, out.height))
            /\ (Add(p.y, p.height) = Hundred => out.y = Zero)
            /\ Mul(out.x, Hundred) = Mul(p.x, pg.width)
            /\ Mul(out.width, Hundred) = Mul(p.width, pg.width)
            /\ Mul(out.height, Hundred) = Mul(p.height, pg.height)

\* C1 witness: a bottom-anchored box that is not also top-anchored was mapped to y = 0.
C1_Witness ==
    /\ TransformDone
    /\ Add(probe.p.y, probe.p.height) = Hundred
    /\ Gt(probe.p.y, Zero)
    /\ probe.out.y = Zero

\* C2: for an in-range placement the returned rectangle lies inside the page and
\* has positive width and height.
C2_InsidePage ==
    (TransformDone /\ InRange(probe.p)) =>
        LET pg == probe.page
            out == probe.out
        IN  /\ Le(Zero, out.x)
            /\ Le(Zero, out.y)
            /\ Le(Add(out.x, out.width), pg.width)
            /\ Le(Add(out.y, out.height), pg.height)
            /\ Gt(out.width, Zero)
            /\ Gt(out.height, Zero)

\* C2 witness: an in-range box touching the page's right and top edges was transformed.
C2_Witness ==
    /\ TransformDone
    /\ InRange(probe.p)
    /\ probe.p.y = Zero
    /\ Add(probe.p.x, probe.p.width) = Hundred
    /\ Add(probe.out.x, probe.out.width) = probe.page.width
    /\ Add(probe.out.y, probe.out.height) = probe.page.height

\* C3 (the claim as stated, against the only conversion to percent the program
\* has): taking the point rectangle back to percent with pixelToPercentage at
\* scale 1 gives the placement back, for every in-range placement.
C3_RoundTrip ==
    (TransformDone /\ InRange(probe.p)) =>
        pixelToPercentage(probe.out.x, probe.out.y, probe.out.width,
                          probe.out.height, Num(1), probe.page) = probe.p

\* C4: the fitted size keeps the image's ratio and fits inside the box.
C4_AspectFit ==
    FitDone /\ FitInputsPositive =>
        /\ Mul(probe.out.width, probe.imgHeight)
               = Mul(probe.out.height, probe.imgWidth)
        /\ Le(probe.out.width, probe.boxWidth)
        /\ Le(probe.out.height, probe.boxHeight)
        /\ Gt(probe.out.width, Zero)
        /\ Gt(probe.out.height, Zero)

\* C4 witness: an image relatively wider than its box was fitted to the width,
\* leaving slack in the height.
C4_Witness ==
    /\ FitDone
    /\ Gt(Div(probe.imgWidth, probe.imgHeight),
          Div(probe.boxWidth, probe.boxHeight))
    /\ probe.out.width = probe.boxWidth
    /\ Lt(probe.out.height, probe.boxHeight)

\* C5: the content is centred on the slack axis and fills the other: both
\* offsets are >= 0, one of them is 0, the content's centre is the box's centre;
\* when the two ratios are equal both branches give the same result, which is
\* the whole box at offset (0, 0).
C5_Centred ==
    FitDone /\ FitInputsPositive =>
        LET out == probe.out
            imgRatio == Div(probe.imgWidth, probe.imgHeight)
            boxRatio == Div(probe.boxWidth, probe.boxHeight)
        IN  /\ Ge(out.offsetX, Zero)
            /\ Ge(out.offsetY, Zero)
            /\ (out.offsetX = Zero \/ out.offsetY = Zero)
            /\ Add(out.offsetX, Div(out.width, Num(2)))
                   = Div(probe.boxWidth, Num(2))
            /\ Add(out.offsetY, Div(out.height, Num(2)))
                   = Div(probe.boxHeight, Num(2))
            /\ (imgRatio = boxRatio =>
                   /\ out = [width |-> probe.boxWidth, height |-> probe.boxHeight,
                             offsetX |-> Zero, offsetY |-> Zero]
                   /\ fitToWidth(probe.boxWidth, probe.boxHeight, imgRatio) = out
                   /\ fitToHeight(probe.boxWidth, probe.boxHeight, imgRatio) = out)

\* C5 witness: a tall image in a wide box was centred horizontally with real slack.
C5_Witness ==
    /\ FitDone
    /\ Gt(probe.out.offsetX, Zero)
    /\ probe.out.offsetY = Zero
    /\ probe.out.height = probe.boxHeight

\* The tie case of C5 is reached on a box that is not square.
C5_TieReached ==
    /\ FitDone
    /\ Div(probe.imgWidth, probe.imgHeight) = Div(probe.boxWidth, probe.boxHeight)
    /\ probe.boxWidth # probe.boxHeight

(***************************************************************************)
(* server.js: the /sign-pdf handler.                                       *)
(*                                                                         *)
(* A document is its bytes (an opaque id), whether PDFDocument.load can    *)
(* parse it, and the size of its first page. The output of pdfDoc.save()   *)
(* is the source document together with the marks drawn on its first page, *)
(* in drawing order. calculateHash is SHA-256, modelled as collision-free. *)
(***************************************************************************)
Slots == {1, 2}

P1 == [x |-> Num(10), y |-> Num(20), width |-> Num(25), height |-> Num(6)]

P2 == [x |-> Num(50), y |-> Num(50), width |-> Num(50), height |-> Num(50)]

NoImage == [url |-> "", bytes |-> "", width |-> Zero, height |-> Zero]

\* A data URL: what its header says, and what the bytes after the comma are.
PngOk == [url |-> "data:image/png;base64,", bytes |-> "png",
          width |-> Num(300), height |-> Num(100)]

JpgOk == [url |-> "data:image/jpeg;base64,", bytes |-> "jpeg",
          width |-> Num(2), height |-> Num(3)]

PngCorrupt == [url |-> "data:image/png;base64,", bytes |-> "corrupt",
               width |-> Zero, height |-> Zero]

GifUnsupported == [url |-> "data:image/gif;base64,", bytes |-> "gif",
                   width |-> Num(1), height |-> Num(1)]

\* A non-empty string with no comma in it: not a data URL at all.
NotADataUrl == [url |-> "iVBORw0KGgo=", bytes |-> "png",
                width |-> Num(1), height |-> Num(1)]

Fld(t, c, v, img, chk) ==
    [type |-> t, coordinates |-> c, value |-> v, imageData |-> img, checked |-> chk]

\* A string the page's standard font cannot encode: drawText throws on it.
Unencodable == "<text outside WinAnsi>"

FieldPool ==
    {Fld("text", P1, "hi", NoImage, FALSE),
     Fld("text", P2, "", NoImage, FALSE),
     Fld("text", P1, Unencodable, NoImage, FALSE),
     Fld("signature", P1, "", PngOk, FALSE),
     Fld("image", P2, "", JpgOk, FALSE),
     Fld("signature", P2, "", NoImage, FALSE),
     Fld("image", P1, "", PngCorrupt, FALSE),
     Fld("image", P2, "", GifUnsupported, FALSE),
     Fld("signature", P1, "", NotADataUrl, FALSE),
     Fld("date", P1, "2024-01-15", NoImage, FALSE),
     Fld("date", P2, "", NoImage, FALSE),
     Fld("radio", P2, "", NoImage, TRUE),
     Fld("radio", P1, "", NoImage, FALSE),
     Fld("checkbox", P1, "", NoImage, TRUE)}

\* The fields of the longest lists, and of the requests served two at a time.
CoreFieldPool ==
    {Fld("text", P1, "hi", NoImage, FALSE),
     Fld("signature", P1, "", PngOk, FALSE),
     Fld("image", P1, "", PngCorrupt, FALSE),
     Fld("date", P2, "", NoImage, FALSE),
     Fld("radio", P2, "", NoImage, TRUE),
     Fld("checkbox", P1, "", NoImage, TRUE)}

FieldLists(pool, max) == UNION {[1..n -> pool] : n \in 0..max}

DocLetter == [id |-> "letter.pdf", parses |-> TRUE,
              page |-> [width |-> Num(612), height |-> Num(792)]]

DocA4 == [id |-> "a4.pdf", parses |-> TRUE,
          page |-> [width |-> Num(595), height |-> Num(842)]]

DocBroken == [id |-> "broken.pdf", parses |-> FALSE,
              page |-> [width |-> Zero, height |-> Zero]]

\* What the editor may send as pdfDimensions: its defaults, or another size.
Hints ==
    {[width |-> Num(595), height |-> Num(842)],
     [width |-> Num(612), height |-> Num(792)]}

Req(ok, doc, fields, dims) ==
    [dataOk |-> ok, doc |-> doc, fields |-> fields, pdfDimensions |-> dims]

NoReq == Req(FALSE, DocBroken, <<>>, [width |-> Zero, height |-> Zero])

\* The editor's default page size (App.jsx, lines 26-27), sent until a page loads.
DefaultHint == [width |-> Num(595), height |-> Num(842)]

\* Requests with any field of the pool and either hint while the list is short,
\* with the core fields and the editor's default hint for the longest lists; a
\* document that does not parse; a data part that is not JSON.
Requests(pool, max) ==
    {Req(TRUE, d, fs, hint) :
        d \in {DocLetter, DocA4}, fs \in FieldLists(pool, max - 1), hint \in Hints}
    \cup {Req(TRUE, d, fs, DefaultHint) :
        d \in {DocLetter, DocA4}, fs \in [1..max -> CoreFieldPool]}
    \cup {Req(TRUE, DocBroken, fs, hint) : fs \in FieldLists(pool, 1), hint \in Hints}
    \cup {Req(FALSE, d, <<>>, hint) : d \in {DocLetter, DocBroken}, hint \in Hints}

\* new Date().toLocaleDateString(): whatever day the field happens to be drawn on.
Today == {"11/2/2026", "11/3/2026"}

NoBytes == [doc |-> "", saved |-> FALSE, marks |-> <<>>]

\* req.file.buffer: the uploaded bytes, as the client sent them.
Upload(doc) == [doc |-> doc.id, saved |-> FALSE, marks |-> <<>>]

calculateHash(buffer) == [sha256 |-> buffer]

NoHash == calculateHash(NoBytes)

\* pdfDoc.save(): the document with what was drawn on its first page.
Serialize(doc, marks) == [doc |-> doc.id, saved |-> TRUE, marks |-> marks]

IdleHandler ==
    [pc |-> "idle", req |-> NoReq, originalHash |-> NoHash,
     page |-> [width |-> Zero, height |-> Zero], idx |-> 0, marks |-> <<>>,
     signedPdfBytes |-> NoBytes, signedHash |-> NoHash, trace |-> <<>>]

NoResp == [status |-> 0, body |-> NoBytes, headers |-> <<>>, error |-> ""]

\* A plausible slip: the digest headers set before the failing step stay on the
\* error response.
errorResponseWithDigests(h, cause) ==
    [status |-> 500, body |-> NoBytes,
     headers |-> <<[name |-> "X-Original-Hash", value |-> h.originalHash]>>,
     error |-> cause]

\* catch (error): res.status(500).json({ error: error.message }).
errorResponse(h, cause) ==
    [status |-> 500, body |-> NoBytes, headers |-> <<>>, error |-> cause]

\* res.set({... 'X-Original-Hash', 'X-Signed-Hash'}); res.send(signedPdfBytes).
okResponse(h) ==
    [status |-> 200, body |-> h.signedPdfBytes,
     headers |-> <<[name |-> "X-Original-Hash", value |-> h.originalHash],
                   [name |-> "X-Signed-Hash", value |-> h.signedHash]>>,
     error |-> ""]

\* A plausible slip: the page size taken from the client's pdfDimensions.
pageSizeFromClient(req) == req.pdfDimensions

\* pdfDoc.getPages()[0].getSize(): the size of the loaded document's first page.
firstPageSize(req) == req.doc.page

\* A plausible slip: the list walked from its end.
fieldAtReversed(fields, i) == Len(fields) + 1 - i

\* for (const field of fields): the i-th iteration takes the i-th element.
fieldAt(fields, i) == i

KnownTypes == {"signature", "image", "text", "date", "radio"}

\* field.imageData.split(',')[1] is a string only if the value has a comma.
HasComma(img) == img.url \in {PngOk.url, JpgOk.url, GifUnsupported.url}

\* embedPng when the string mentions image/png, embedJpg otherwise; either
\* rejects bytes that are not an image of its own format.
Embeds(img) ==
    IF img.url = PngOk.url THEN img.bytes = "png" ELSE img.bytes = "jpeg"

\* The catch block: the error is logged and answered with status 500.
Fail(r, cause) ==
    /\ handler' = [handler EXCEPT ![r].pc = "done",
                       ![r].trace = Append(@, "error")]
    /\ resp' = [resp EXCEPT ![r] = errorResponse(handler[r], cause)]
    /\ log' = Append(log, [slot |-> r, what |-> "Error processing PDF", field |-> 0])
    /\ UNCHANGED <<probe, db, verify, editor>>

\* One iteration of the loop done: on to the next field.
Advance(r, marks) ==
    /\ handler' = [handler EXCEPT ![r].idx = @ + 1, ![r].marks = marks,
                       ![r].trace = Append(@, "field")]
    /\ UNCHANGED <<probe, resp, db, verify, editor>>

\* Lines 108-116 with a request whose data part is not JSON.
ReceiveBadData(r, pool, max) ==
    /\ handler[r].pc = "idle"
    /\ \E q \in Requests(pool, max) :
          /\ ~q.dataOk
          /\ handler' = [handler EXCEPT ![r].pc = "done", ![r].req = q,
                             ![r].trace = <<"error">>]
          /\ resp' = [resp EXCEPT ![r] = errorResponse(handler[r], "JSON.parse")]
    /\ log' = Append(log, [slot |-> r, what |-> "Error processing PDF", field |-> 0])
    /\ UNCHANGED <<probe, db, verify, editor>>

\* Lines 108-116: parse the data, hash the upload, start loading it.
Accept(r, q) ==
    /\ handler[r].pc = "idle"
    /\ q.dataOk
    /\ handler' = [handler EXCEPT ![r].pc = "loading", ![r].req = q,
                       ![r].originalHash = calculateHash(Upload(q.doc)),
                       ![r].trace = <<"hashOriginal">>]
    /\ UNCHANGED <<probe, resp, db, log, verify, editor>>

Receive(r, pool, max) ==
    /\ handler[r].pc = "idle"
    /\ \E q \in Requests(pool, max) : Accept(r, q)

\* The second of two requests that differ only in pdfDimensions.
ReceiveTwin(r, first) ==
    /\ handler[r].pc = "idle"
    /\ handler[first].pc # "idle"
    /\ handler[first].req.dataOk
    /\ \E hint \in Hints \ {handler[first].req.pdfDimensions} :
          Accept(r, [handler[first].req EXCEPT !.pdfDimensions = hint])

\* await PDFDocument.load rejects.
LoadReject(r) ==
    /\ handler[r].pc = "loading"
    /\ ~handler[r].req.doc.parses
    /\ Fail(r, "PDFDocument.load")

\* await PDFDocument.load resolves; lines 117-122.
LoadResolve(r) ==
    /\ handler[r].pc = "loading"
    /\ handler[r].req.doc.parses
    /\ handler' = [handler EXCEPT ![r].pc = "fields",
                       ![r].page = firstPageSize(handler[r].req),
                       ![r].idx = 1,
                       ![r].trace = Append(@, "load")]
    /\ UNCHANGED <<probe, resp, db, log, verify, editor>>

InLoop(r) ==
    /\ handler[r].pc = "fields"
    /\ handler[r].idx <= Len(handler[r].req.fields)

CurrentIndex(r) == fieldAt(handler[r].req.fields, handler[r].idx)

CurrentField(r) == handler[r].req.fields[CurrentIndex(r)]

\* The page size of another request, where that request has loaded its document.
pageOfLastLoaded(r) ==
    IF \E o \in Slots \ {r} : handler[o].pc \notin {"idle", "loading"}
    THEN handler[CHOOSE o \in Slots \ {r} : handler[o].pc \notin {"idle", "loading"}].page
    ELSE handler[r].page

\* const { width: pageWidth, height: pageHeight } of the invocation.
loadedPage(r) == handler[r].page

\* Lines 127-130.
pdfCoordsOf(r) == transformCoordinatesToPDF(CurrentField(r).coordinates, loadedPage(r))

\* What the three text-size expressions of the handler compute.
TextSize(pdfCoords) == MathMin(Mul(pdfCoords.height, Rat(6, 10)), Num(12))

textRunOnBottomEdge(i, pdfCoords, string) ==
    [kind |-> "text", field |-> i, content |-> string,
     x |-> Add(pdfCoords.x, Num(5)), y |-> pdfCoords.y,
     width |-> Zero, height |-> Zero, size |-> TextSize(pdfCoords)]

\* firstPage.drawText(string, { x, y, size, color }) of the text and date cases.
textRun(i, pdfCoords, string) ==
    [kind |-> "text", field |-> i, content |-> string,
     x |-> Add(pdfCoords.x, Num(5)),
     y |-> Add(pdfCoords.y, Div(pdfCoords.height, Num(2))),
     width |-> Zero, height |-> Zero, size |-> TextSize(pdfCoords)]

TextMark(r, string) == textRun(CurrentIndex(r), pdfCoordsOf(r), string)

dateValueAlwaysToday(field, now) == now

\* const dateValue = field.value || new Date().toLocaleDateString().
dateValueOf(field, now) == IF field.value # "" THEN field.value ELSE now

\* firstPage.drawImage(image, { x, y, width, height }) after the aspect fit.
imageMark(i, pdfCoords, img) ==
    LET fitted == calculateAspectRatioFit(pdfCoords.width, pdfCoords.height,
                                          img.width, img.height)
    IN  [kind |-> "image", field |-> i, content |-> img.bytes,
         x |-> Add(pdfCoords.x, fitted.offsetX),
         y |-> Add(pdfCoords.y, fitted.offsetY),
         width |-> fitted.width, height |-> fitted.height, size |-> Zero]

radioCircleAcrossBox(i, pdfCoords) ==
    [kind |-> "circle", field |-> i, content |-> "",
     x |-> Add(pdfCoords.x, Div(pdfCoords.width, Num(2))),
     y |-> Add(pdfCoords.y, Div(pdfCoords.height, Num(2))),
     width |-> Zero, height |-> Zero,
     size |-> MathMin(pdfCoords.width, pdfCoords.height)]

\* firstPage.drawCircle({ x, y, size, color }) of a checked radio button.
radioCircle(i, pdfCoords) ==
    [kind |-> "circle", field |-> i, content |-> "",
     x |-> Add(pdfCoords.x, Div(pdfCoords.width, Num(2))),
     y |-> Add(pdfCoords.y, Div(pdfCoords.height, Num(2))),
     width |-> Zero, height |-> Zero,
     size |-> Div(MathMin(pdfCoords.width, pdfCoords.height), Num(3))]

\* case 'signature' / case 'image'.
FieldImage(r) ==
    /\ InLoop(r)
    /\ CurrentField(r).type \in {"signature", "image"}
    /\ LET field == CurrentField(r)
           img == field.imageData
           mark == imageMark(CurrentIndex(r), pdfCoordsOf(r), img)
       IN  IF img = NoImage
           THEN Advance(r, handler[r].marks) /\ UNCHANGED log
           ELSE IF ~HasComma(img)
           THEN Fail(r, "Buffer.from")
           ELSE IF ~Embeds(img)
           THEN /\ Advance(r, handler[r].marks)
                /\ log' = Append(log, [slot |-> r, what |-> "Image embed error",
                                       field |-> CurrentIndex(r)])
           ELSE Advance(r, Append(handler[r].marks, mark)) /\ UNCHANGED log

\* case 'text'.
FieldText(r) ==
    /\ InLoop(r)
    /\ CurrentField(r).type = "text"
    /\ LET field == CurrentField(r)
       IN  IF field.value = ""
           THEN Advance(r, handler[r].marks) /\ UNCHANGED log
           ELSE IF field.value = Unencodable
           THEN Fail(r, "drawText")
           ELSE Advance(r, Append(handler[r].marks, TextMark(r, field.value)))
                /\ UNCHANGED log

\* case 'date'.
FieldDate(r) ==
    /\ InLoop(r)
    /\ CurrentField(r).type = "date"
    /\ \E now \in Today :
          LET field == CurrentField(r)
              dateValue == dateValueOf(field, now)
          IN  Advance(r, Append(handler[r].marks, TextMark(r, dateValue)))
    /\ UNCHANGED log

\* case 'radio'.
FieldRadio(r) ==
    /\ InLoop(r)
    /\ CurrentField(r).type = "radio"
    /\ LET field == CurrentField(r)
           mark == radioCircle(CurrentIndex(r), pdfCoordsOf(r))
       IN  IF field.checked
           THEN Advance(r, Append(handler[r].marks, mark))
           ELSE Advance(r, handler[r].marks)
    /\ UNCHANGED log

\* The switch has no default: a field of any other type falls through it.
FieldOther(r) ==
    /\ InLoop(r)
    /\ CurrentField(r).type \notin KnownTypes
    /\ Advance(r, handler[r].marks)
    /\ UNCHANGED log

LoopDone(r) ==
    /\ handler[r].pc = "fields"
    /\ handler[r].idx > Len(handler[r].req.fields)

\* await pdfDoc.save() resolves; lines 218-231 up to the call of auditRecord.save().
SaveResolve(r) ==
    /\ LoopDone(r)
    /\ LET bytes == Serialize(handler[r].req.doc, handler[r].marks)
       IN  handler' = [handler EXCEPT ![r].pc = "auditing",
                           ![r].signedPdfBytes = bytes,
                           ![r].signedHash = calculateHash(bytes),
                           ![r].trace = Append(Append(@, "save"), "hashSigned")]
    /\ UNCHANGED <<probe, resp, db, log, verify, editor>>

\* await pdfDoc.save() rejects.
SaveReject(r) ==
    /\ LoopDone(r)
    /\ Fail(r, "pdfDoc.save")

\* await auditRecord.save() resolves: the record is in the collection.
AuditResolve(r) ==
    /\ handler[r].pc = "auditing"
    /\ db' = Append(db, [originalHash |-> handler[r].originalHash,
                         signedHash |-> handler[r].signedHash,
                         originalFilename |-> handler[r].req.doc.id,
                         fieldsApplied |-> Len(handler[r].req.fields)])
    /\ handler' = [handler EXCEPT ![r].pc = "responding",
                       ![r].trace = Append(@, "audit")]
    /\ UNCHANGED <<probe, resp, log, verify, editor>>

\* await auditRecord.save() rejects (no connection, validation, timeout).
AuditReject(r) ==
    /\ handler[r].pc = "auditing"
    /\ Fail(r, "auditRecord.save")

\* Lines 233-240.
Respond(r) ==
    /\ handler[r].pc = "responding"
    /\ resp' = [resp EXCEPT ![r] = okResponse(handler[r])]
    /\ handler' = [handler EXCEPT ![r].pc = "done",
                       ![r].trace = Append(@, "respond")]
    /\ UNCHANGED <<probe, db, log, verify, editor>>

Step(r) ==
    \/ LoadReject(r)
    \/ LoadResolve(r)
    \/ FieldImage(r)
    \/ FieldText(r)
    \/ FieldDate(r)
    \/ FieldRadio(r)
    \/ FieldOther(r)
    \/ SaveResolve(r)
    \/ SaveReject(r)
    \/ AuditResolve(r)
    \/ AuditReject(r)
    \/ Respond(r)

(***************************************************************************)
(* server.js: POST /verify-hash, and the requests of the other             *)
(* specifications.                                                         *)
(***************************************************************************)
ReceiveFrom(r, requests) ==
    /\ handler[r].pc = "idle"
    /\ \E q \in requests : Accept(r, q)

Matches(record, hash) == record.originalHash = hash \/ record.signedHash = hash

findOneByOriginalHash(collection, hash) ==
    LET hits == {k \in 1..Len(collection) : collection[k].originalHash = hash}
    IN  IF hits = {} THEN <<>>
        ELSE <<collection[CHOOSE k \in hits : \A j \in hits : k <= j]>>

\* Signature.findOne({ $or: [{ originalHash: hash }, { signedHash: hash }] }):
\* the first matching record of the collection, or none.
findOne(collection, hash) ==
    LET hits == {k \in 1..Len(collection) : Matches(collection[k], hash)}
    IN  IF hits = {} THEN <<>>
        ELSE <<collection[CHOOSE k \in hits : \A j \in hits : k <= j]>>

\* Lines 249-264: the lookup resolves. asked counts the requests; seen is the
\* number of records the collection held when it was read.
verifyHash(hash) ==
    /\ verify.asked < MaxVerifies
    /\ LET record == findOne(db, hash)
       IN  verify' = [hash |-> hash, status |-> 200, found |-> record # <<>>,
                      record |-> record, seen |-> Len(db), asked |-> verify.asked + 1]
    /\ UNCHANGED <<probe, handler, resp, db, log, editor>>

\* Lines 265-268: the lookup rejects.
verifyHashRejects(hash) ==
    /\ verify.asked < MaxVerifies
    /\ verify' = [hash |-> hash, status |-> 500, found |-> FALSE, record |-> <<>>,
                  seen |-> Len(db), asked |-> verify.asked + 1]
    /\ log' = Append(log, [slot |-> 0, what |-> "Error verifying hash", field |-> 0])
    /\ UNCHANGED <<probe, handler, resp, db, editor>>

\* The same request once more: same bytes, same field list, same hint.
ReceiveSame(r, first) ==
    /\ handler[r].pc = "idle"
    /\ handler[first].pc # "idle"
    /\ handler[first].req.dataOk
    /\ Accept(r, handler[first].req)

\* Fields of requests that are sent twice: dates with and without a value.
SamePool ==
    {Fld("date", P1, "2024-01-15", NoImage, FALSE),
     Fld("date", P2, "", NoImage, FALSE),
     Fld("text", P1, "hi", NoImage, FALSE),
     Fld("signature", P2, "", PngOk, FALSE),
     Fld("radio", P2, "", NoImage, TRUE),
     Fld("checkbox", P1, "", NoImage, TRUE)}

SameRequests ==
    {Req(TRUE, d, fs, DefaultHint) :
        d \in {DocLetter, DocA4}, fs \in FieldLists(SamePool, MaxSameFields)}
    \cup {Req(TRUE, DocBroken, <<>>, DefaultHint)}

\* Fields of requests for different documents that are served concurrently.
ConcPool ==
    {Fld("text", P1, "hi", NoImage, FALSE),
     Fld("signature", P2, "", PngOk, FALSE),
     Fld("date", P1, "", NoImage, FALSE),
     Fld("radio", P2, "", NoImage, TRUE),
     Fld("checkbox", P1, "", NoImage, TRUE)}

\* Requests for the US Letter document, or for one that does not parse.
LetterRequests ==
    {Req(TRUE, DocLetter, fs, DefaultHint) : fs \in FieldLists(ConcPool, MaxConcFields)}
    \cup {Req(TRUE, DocBroken, <<>>, DefaultHint)}

\* Requests for the A4 document.
A4Requests ==
    {Req(TRUE, DocA4, <<>>, DefaultHint),
     Req(TRUE, DocA4, <<Fld("signature", P1, "", PngOk, FALSE),
                        Fld("date", P2, "", NoImage, FALSE)>>, DefaultHint),
     Req(TRUE, DocA4, <<Fld("text", P2, "hi", NoImage, FALSE),
                        Fld("radio", P1, "", NoImage, TRUE)>>, DefaultHint)}

\* Requests signed while digests are looked up.
AuditRequests ==
    {Req(TRUE, DocLetter, <<>>, DefaultHint),
     Req(TRUE, DocLetter, <<Fld("text", P1, "hi", NoImage, FALSE),
                            Fld("radio", P2, "", NoImage, TRUE)>>, DefaultHint),
     Req(TRUE, DocA4, <<Fld("date", P1, "2024-01-15", NoImage, FALSE),
                        Fld("checkbox", P1, "", NoImage, TRUE)>>, DefaultHint),
     Req(TRUE, DocA4, <<Fld("signature", P1, "", NotADataUrl, FALSE)>>, DefaultHint),
     Req(TRUE, DocBroken, <<>>, DefaultHint)}

\* The digests a client may ask about: of any upload, of any output computed
\* so far, and the digest of nothing.
HashesAsked ==
    {calculateHash(Upload(q.doc)) : q \in AuditRequests}
        \cup {handler[r].signedHash : r \in Slots}

(***************************************************************************)
(* App.jsx: the editor. One record holds the component's state; a mouse    *)
(* gesture (mousedown .. mousemove* .. mouseup) keeps what its closures    *)
(* captured at mousedown. value, imageData and checked of a field play no  *)
(* part in its placement and are left out. clock is Date.now(), which      *)
(* gives a new field its id; it ticks at every drop and mouse movement.    *)
(***************************************************************************)
\* selectedField, resizing, draggingType and pdfFile start as null.
Null == 0

NoType == ""

NoResizing == [fieldId |-> Null, corner |-> ""]

NoGesture == [kind |-> "none", fieldId |-> Null, corner |-> "",
              pixelCoords |-> [x |-> Zero, y |-> Zero, width |-> Zero, height |-> Zero],
              scale |-> Zero,
              page |-> [width |-> Zero, height |-> Zero]]

\* The useState initial values, lines 23-31.
InitEditor ==
    [pdfFile |-> Null,
     pageWidth |-> Num(595), pageHeight |-> Num(842),
     fields |-> <<>>,
     selectedField |-> Null,
     draggingType |-> NoType,
     resizing |-> NoResizing,
     containerWidth |-> Num(800),
     gesture |-> NoGesture,
     pageLoading |-> FALSE,
     clock |-> 1]

\* const scale = containerWidth / pageWidth.
scaleOf(e) == Div(e.containerWidth, e.pageWidth)

pageOf(e) == [width |-> e.pageWidth, height |-> e.pageHeight]

MathMax(a, b) == IF IsNaN(a) \/ IsNaN(b) THEN NaN ELSE IF Gt(a, b) THEN a ELSE b

FieldIds(e) == {e.fields[k].id : k \in 1..Len(e.fields)}

\* fields.find(f => f.id === fieldId), for an id that is in the list.
findField(e, fieldId) ==
    e.fields[CHOOSE k \in 1..Len(e.fields) : e.fields[k].id = fieldId]

\* The Field Properties panel reads field.type of fields.find(...): rendering
\* throws, and React unmounts the editor, when the selected id is in no field.
EditorRenders(e) == e.selectedField = Null \/ e.selectedField \in FieldIds(e)

Quiet(e) == EditorRenders(e) /\ e.gesture.kind = "none"

\* The files a user picks, the client widths a window takes, the palette
\* entries and the mouse positions used.
PdfFiles == {1}

ClientWidths == {Num(1000), Num(440)}

\* The first-page viewport react-pdf reports for a file: US Letter.
viewportOf(file) == [width |-> Num(612), height |-> Num(792)]

Palette == {"signature"}

DropPoints ==
    {[x |-> Num(100), y |-> Num(200)],
     [x |-> Num(750), y |-> Num(200)]}

MouseDeltas ==
    {[x |-> Num(60), y |-> Num(10)],
     [x |-> Num(120), y |-> Num(40)]}

Corners == {"nw", "se"}

\* corner.includes('e') and its like.
Includes(corner, c) ==
    CASE c = "n" -> corner \in {"nw", "ne"}
      [] c = "s" -> corner \in {"sw", "se"}
      [] c = "w" -> corner \in {"nw", "sw"}
      [] c = "e" -> corner \in {"ne", "se"}

server == <<probe, handler, resp, db, log, verify>>

\* handleFileUpload with a file of type application/pdf.
handleFileUpload(file) ==
    /\ Quiet(editor)
    /\ editor' = [editor EXCEPT !.pdfFile = file, !.fields = <<>>,
                                !.pageLoading = TRUE]
    /\ UNCHANGED server

\* onPageLoadSuccess: react-pdf has rendered the first page of the file.
onPageLoadSuccess ==
    /\ Quiet(editor)
    /\ editor.pageLoading
    /\ LET viewport == viewportOf(editor.pdfFile)
       IN  editor' = [editor EXCEPT !.pageWidth = viewport.width,
                                    !.pageHeight = viewport.height,
                                    !.pageLoading = FALSE]
    /\ UNCHANGED server

\* updateWidth, on every resize of the window.
updateWidth(clientWidth) ==
    /\ Quiet(editor)
    /\ editor' = [editor EXCEPT
                     !.containerWidth = containerWidthFor(clientWidth)]
    /\ UNCHANGED server

\* onDragStart of a palette entry.
onDragStart(type) ==
    /\ Quiet(editor)
    /\ editor' = [editor EXCEPT !.draggingType = type]
    /\ UNCHANGED server

\* handleDrop at (pixelX, pixelY) = (clientX - rect.left, clientY - rect.top).
handleDrop(pixelX, pixelY) ==
    /\ Quiet(editor)
    /\ editor.pdfFile # Null
    /\ editor.draggingType # NoType
    /\ editor.clock <= MaxClock
    /\ LET percentCoords == pixelToPercentage(pixelX, pixelY, Num(150), Num(50),
                                              scaleOf(editor), pageOf(editor))
           newField == [id |-> editor.clock, type |-> editor.draggingType,
                        x |-> percentCoords.x, y |-> percentCoords.y,
                        width |-> percentCoords.width, height |-> percentCoords.height]
       IN  editor' = [editor EXCEPT !.fields = Append(@, newField),
                                    !.draggingType = NoType,
                                    !.clock = @ + 1]
    /\ UNCHANGED server

\* handleFieldMouseDown up to the registration of the two listeners.
handleFieldMouseDown(fieldId) ==
    /\ Quiet(editor)
    /\ fieldId \in FieldIds(editor)
    /\ editor.resizing = NoResizing
    /\ editor' = [editor EXCEPT
                     !.selectedField = fieldId,
                     !.gesture = [kind |-> "drag", fieldId |-> fieldId, corner |-> "",
                                  pixelCoords |-> percentageToPixel(findField(editor, fieldId),
                                                     scaleOf(editor), pageOf(editor)),
                                  scale |-> scaleOf(editor),
                                  page |-> pageOf(editor)]]
    /\ UNCHANGED server

\* setFields(prev => prev.map(...)) of either mousemove listener: the field
\* with the id is replaced by its updated copy, every other field is kept.
mapFields(fields, fieldId, updated) ==
    [k \in 1..Len(fields) |-> IF fields[k].id = fieldId THEN updated ELSE fields[k]]

\* handleMouseMove of handleFieldMouseDown.
dragMouseMove(deltaX, deltaY) ==
    /\ EditorRenders(editor)
    /\ editor.gesture.kind = "drag"
    /\ editor.clock <= MaxClock
    /\ LET g == editor.gesture
           newPixelX == Add(g.pixelCoords.x, deltaX)
           newPixelY == Add(g.pixelCoords.y, deltaY)
           newPercent == pixelToPercentage(newPixelX, newPixelY, g.pixelCoords.width,
                                           g.pixelCoords.height, g.scale, g.page)
           f == findField(editor, g.fieldId)
           updated == [f EXCEPT
                          !.x = MathMax(Zero, MathMin(Sub(Hundred, f.width), newPercent.x)),
                          !.y = MathMax(Zero, MathMin(Sub(Hundred, f.height), newPercent.y))]
       IN  editor' = [editor EXCEPT !.fields = mapFields(@, g.fieldId, updated),
                                    !.clock = @ + 1]
    /\ UNCHANGED server

\* handleMouseUp of handleFieldMouseDown.
dragMouseUp ==
    /\ editor.gesture.kind = "drag"
    /\ editor' = [editor EXCEPT !.gesture = NoGesture]
    /\ UNCHANGED server

\* handleResizeMouseDown on a corner handle; the handles are rendered for the
\* selected field only.
handleResizeMouseDown(fieldId, corner) ==
    /\ Quiet(editor)
    /\ fieldId \in FieldIds(editor)
    /\ editor.selectedField = fieldId
    /\ editor' = [editor EXCEPT
                     !.resizing = [fieldId |-> fieldId, corner |-> corner],
                     !.gesture = [kind |-> "resize", fieldId |-> fieldId, corner |-> corner,
                                  pixelCoords |-> percentageToPixel(findField(editor, fieldId),
                                                     scaleOf(editor), pageOf(editor)),
                                  scale |-> scaleOf(editor),
                                  page |-> pageOf(editor)]]
    /\ UNCHANGED server

\* The rectangle the mousemove listener of a resize computes, in pixels.
resizedRect(pixelCoords, corner, deltaX, deltaY) ==
    [x |-> IF Includes(corner, "w") THEN Add(pixelCoords.x, deltaX) ELSE pixelCoords.x,
     y |-> IF Includes(corner, "n") THEN Add(pixelCoords.y, deltaY) ELSE pixelCoords.y,
     width |-> IF Includes(corner, "w")
               THEN MathMax(Num(50), Sub(pixelCoords.width, deltaX))
               ELSE MathMax(Num(50), Add(pixelCoords.width, deltaX)),
     height |-> IF Includes(corner, "n")
                THEN MathMax(Num(30), Sub(pixelCoords.height, deltaY))
                ELSE MathMax(Num(30), Add(pixelCoords.height, deltaY))]

\* handleMouseMove of handleResizeMouseDown.
resizeMouseMove(deltaX, deltaY) ==
    /\ EditorRenders(editor)
    /\ editor.gesture.kind = "resize"
    /\ editor.clock <= MaxClock
    /\ LET g == editor.gesture
           new == resizedRect(g.pixelCoords, g.corner, deltaX, deltaY)
           newPercent == pixelToPercentage(new.x, new.y, new.width, new.height,
                                           g.scale, g.page)
           updated == [findField(editor, g.fieldId) EXCEPT
                          !.x = newPercent.x, !.y = newPercent.y,
                          !.width = newPercent.width, !.height = newPercent.height]
       IN  editor' = [editor EXCEPT !.fields = mapFields(@, g.fieldId, updated),
                                    !.clock = @ + 1]
    /\ UNCHANGED server

\* handleMouseUp of handleResizeMouseDown.
resizeMouseUp ==
    /\ editor.gesture.kind = "resize"
    /\ editor' = [editor EXCEPT !.resizing = NoResizing, !.gesture = NoGesture]
    /\ UNCHANGED server

RECURSIVE filterOut(_, _)
filterOut(fields, fieldId) ==
    IF fields = <<>> THEN <<>>
    ELSE IF Head(fields).id = fieldId THEN filterOut(Tail(fields), fieldId)
    ELSE <<Head(fields)>> \o filterOut(Tail(fields), fieldId)

\* deleteField, from the Delete button of the Field Properties panel.
deleteField(fieldId) ==
    /\ Quiet(editor)
    /\ editor.selectedField = fieldId
    /\ fieldId \in FieldIds(editor)
    /\ editor' = [editor EXCEPT !.fields = filterOut(@, fieldId),
                                !.selectedField = Null]
    /\ UNCHANGED server

NextEditor ==
    \/ \E file \in PdfFiles : handleFileUpload(file)
    \/ onPageLoadSuccess
    \/ \E clientWidth \in ClientWidths : updateWidth(clientWidth)
    \/ \E type \in Palette : onDragStart(type)
    \/ \E pt \in DropPoints : handleDrop(pt.x, pt.y)
    \/ \E fieldId \in FieldIds(editor) : handleFieldMouseDown(fieldId)
    \/ \E d \in MouseDeltas : dragMouseMove(d.x, d.y)
    \/ dragMouseUp
    \/ \E fieldId \in FieldIds(editor), corner \in Corners :
          handleResizeMouseDown(fieldId, corner)
    \/ \E d \in MouseDeltas : resizeMouseMove(d.x, d.y)
    \/ resizeMouseUp
    \/ \E fieldId \in FieldIds(editor) : deleteField(fieldId)

(***************************************************************************)
(* The specifications.                                                     *)
(***************************************************************************)
\* No /verify-hash request answered yet.
NoVerify ==
    [hash |-> NoHash, status |-> 0, found |-> FALSE, record |-> <<>>,
     seen |-> 0, asked |-> 0]

InitServer ==
    /\ handler = [r \in Slots |-> IdleHandler]
    /\ resp = [r \in Slots |-> NoResp]
    /\ db = <<>>
    /\ log = <<>>
    /\ verify = NoVerify

\* One /sign-pdf request, start to finish.
Init == probe = NoProbe /\ InitServer /\ editor = InitEditor

Next ==
    \/ ReceiveBadData(1, FieldPool, MaxFields)
    \/ Receive(1, FieldPool, MaxFields)
    \/ Step(1)

Spec == Init /\ [][Next]_vars

\* Two /sign-pdf requests that differ only in pdfDimensions, served concurrently.
NextPair ==
    \/ Receive(1, CoreFieldPool, MaxPairFields)
    \/ ReceiveTwin(2, 1)
    \/ \E r \in Slots : Step(r)

SpecPair == Init /\ [][NextPair]_vars

\* The pure functions, each applied once to an input of its domain.
InitFn ==
    /\ probe \in TransformProbes \cup FitProbes \cup FitZeroProbes \cup PixelProbes
    /\ InitServer
    /\ editor = InitEditor

NextFn ==
    \/ DoTransform
    \/ DoFit
    \/ DoPlace
    \/ \E clientWidth \in ProbeClientWidths : DoUpdateWidth(clientWidth)

SpecFn == InitFn /\ [][NextFn]_vars

\* Two /sign-pdf requests and some /verify-hash requests, in any interleaving.
NextAudit ==
    \/ \E r \in Slots : ReceiveFrom(r, AuditRequests)
    \/ \E r \in Slots : Step(r)
    \/ \E hash \in HashesAsked : verifyHash(hash)
    \/ \E hash \in HashesAsked : verifyHashRejects(hash)

SpecAudit == Init /\ [][NextAudit]_vars

\* One request sent twice, the two served concurrently.
NextSame ==
    \/ ReceiveFrom(1, SameRequests)
    \/ ReceiveSame(2, 1)
    \/ \E r \in Slots : Step(r)

SpecSame == Init /\ [][NextSame]_vars

\* Two requests for different documents, interleaved at every await.
NextConc ==
    \/ ReceiveFrom(1, LetterRequests)
    \/ ReceiveFrom(2, A4Requests)
    \/ \E r \in Slots : Step(r)

SpecConc == Init /\ [][NextConc]_vars

\* The editor on its own: no request is sent.
SpecEditor == Init /\ [][NextEditor]_vars

(***************************************************************************)
(* Claims about the /sign-pdf handler.                                     *)
(***************************************************************************)
Range(seq) == {seq[i] : i \in DOMAIN seq}

FieldsOf(r) == handler[r].req.fields

\* An image the handler is given and cannot turn into an embedded image.
UndecodableImage(f) ==
    /\ f.type \in {"signature", "image"}
    /\ f.imageData # NoImage
    /\ (~HasComma(f.imageData) \/ ~Embeds(f.imageData))

\* A field the switch draws something for.
Renders(f) ==
    \/ f.type \in {"signature", "image"} /\ f.imageData # NoImage
          /\ HasComma(f.imageData) /\ Embeds(f.imageData)
    \/ f.type = "text" /\ f.value # ""
    \/ f.type = "date"
    \/ f.type = "radio" /\ f.checked

\* C6 (the claim as stated): no request ends in an error at a signature or image
\* field whose image cannot be decoded; such a field is skipped and the loop goes on.
C6_BadImageNeverAborts ==
    \A r \in Slots :
        resp[r].status = 500 =>
            ~(/\ handler[r].idx \in 1..Len(FieldsOf(r))
              /\ UndecodableImage(FieldsOf(r)[handler[r].idx]))

\* C7 (the claim as stated): a request that carries a field of an unrecognised
\* type never ends with a signed document.
C7_UnknownTypeIsFatal ==
    \A r \in Slots :
        resp[r].status = 200 =>
            \A i \in 1..Len(FieldsOf(r)) : FieldsOf(r)[i].type \in KnownTypes

Geometry(mark) ==
    [field |-> mark.field, kind |-> mark.kind, x |-> mark.x, y |-> mark.y,
     width |-> mark.width, height |-> mark.height, size |-> mark.size]

SameUpTo(a, b) ==
    \A k \in 1..(IF Len(a) < Len(b) THEN Len(a) ELSE Len(b)) :
        Geometry(a[k]) = Geometry(b[k])

OkTrace(n) ==
    <<"hashOriginal", "load">> \o [i \in 1..n |-> "field"]
        \o <<"save", "hashSigned", "audit", "respond">>

IsPrefix(a, b) == Len(a) <= Len(b) /\ SubSeq(b, 1, Len(a)) = a

\* C9: a request in which any step failed is answered with status 500 and
\* carries no document bytes and no digest header; a document and its two
\* digests are returned only after load, every field, serialize, digest and the
\* audit record, in that order (the digest of the upload is taken before the
\* load, that of the output after the serialization).
C9_AllOrNothing ==
    \A r \in Slots :
        LET h == handler[r]
            steps == IF h.trace # <<>> /\ h.trace[Len(h.trace)] = "error"
                     THEN SubSeq(h.trace, 1, Len(h.trace) - 1) ELSE h.trace
        IN  /\ resp[r].status \in {0, 200, 500}
            /\ IsPrefix(steps, OkTrace(Len(h.req.fields)))
            /\ ("error" \in Range(h.trace)) <=> (resp[r].status = 500)
            /\ resp[r].status = 500 =>
                  /\ h.pc = "done"
                  /\ resp[r].body = NoBytes
                  /\ resp[r].headers = <<>>
            /\ resp[r].status = 200 =>
                  /\ h.trace = OkTrace(Len(h.req.fields))
                  /\ h.req.dataOk /\ h.req.doc.parses
                  /\ h.idx = Len(h.req.fields) + 1
                  /\ resp[r].body = Serialize(h.req.doc, h.marks)
                  /\ resp[r].headers =
                        <<[name |-> "X-Original-Hash",
                           value |-> calculateHash(Upload(h.req.doc))],
                          [name |-> "X-Signed-Hash",
                           value |-> calculateHash(resp[r].body)]>>
                  /\ \E k \in DOMAIN db :
                        /\ db[k].originalHash = calculateHash(Upload(h.req.doc))
                        /\ db[k].signedHash = calculateHash(resp[r].body)
            /\ resp[r].status = 0 => h.pc # "done"

\* C9 witness: the audit record could not be saved after fields had been drawn
\* and the document serialized, and the answer is the bare error.
C9_Witness ==
    /\ resp[1].status = 500
    /\ resp[1].error = "auditRecord.save"
    /\ Len(handler[1].marks) > 0
    /\ handler[1].signedPdfBytes # NoBytes
    /\ resp[1].body = NoBytes

\* C10: the marks on the page are in the order of the submitted list: each
\* field already passed by the loop that draws something has exactly one mark,
\* a field the loop has not reached has none, and of two marks the one of the
\* later field is the later one, whatever fields were skipped in between.
C10_InListOrder ==
    \A r \in Slots :
        LET h == handler[r]
            passed == IF h.pc = "idle" THEN 0 ELSE h.idx - 1
        IN  /\ \A j, k \in DOMAIN h.marks :
                  j < k => h.marks[j].field < h.marks[k].field
            /\ \A k \in DOMAIN h.marks : h.marks[k].field \in 1..passed
            /\ \A i \in 1..Len(h.req.fields) :
                  (i <= passed /\ Renders(h.req.fields[i]))
                      <=> (\E k \in DOMAIN h.marks : h.marks[k].field = i)
            /\ h.idx <= Len(h.req.fields) + 1

\* C10 witness: an undecodable image between two drawn fields was skipped and
\* the two marks are in list order.
C10_Witness ==
    /\ resp[1].status = 200
    /\ Len(FieldsOf(1)) = 3
    /\ UndecodableImage(FieldsOf(1)[2])
    /\ Len(handler[1].marks) = 2
    /\ handler[1].marks[1].field = 1
    /\ handler[1].marks[2].field = 3

(***************************************************************************)
(* The audit collection and its lookup.                                    *)
(***************************************************************************)
\* The record a request persists once its output is serialized.
RecordOf(r) ==
    [originalHash |-> calculateHash(Upload(handler[r].req.doc)),
     signedHash |-> calculateHash(Serialize(handler[r].req.doc, handler[r].marks)),
     originalFilename |-> handler[r].req.doc.id,
     fieldsApplied |-> Len(handler[r].req.fields)]

Persisted(r) == \E k \in 1..Len(handler[r].trace) : handler[r].trace[k] = "audit"

\* C11: a /verify-hash answer says found, with a record one of whose two
\* digests is the digest asked about, exactly when a signing had persisted a
\* record with that digest by the time of the lookup, and found: false
\* otherwise; the records of the collection are exactly those of the requests
\* that got past auditRecord.save(), each holding the digest of the uploaded
\* bytes, the digest of the serialized output and the length of the field list.
C11_LookupMatchesAudit ==
    /\ \A k \in 1..Len(db) : \E r \in Slots : Persisted(r) /\ db[k] = RecordOf(r)
    /\ \A r \in Slots : Persisted(r) => \E k \in 1..Len(db) : db[k] = RecordOf(r)
    /\ verify.status = 200 =>
          /\ verify.found <=> \E k \in 1..verify.seen : Matches(db[k], verify.hash)
          /\ verify.found => /\ Len(verify.record) = 1
                             /\ Matches(verify.record[1], verify.hash)
                             /\ \E k \in 1..verify.seen : db[k] = verify.record[1]
          /\ ~verify.found => verify.record = <<>>

\* A lookup by the digest of an output finds the record of a request with fields.
C11_Witness ==
    /\ verify.status = 200
    /\ verify.found
    /\ verify.record[1].signedHash = verify.hash
    /\ verify.record[1].originalHash # verify.hash
    /\ verify.record[1].fieldsApplied = 2
    /\ Len(db) = 2

(***************************************************************************)
(* The aspect fit on a height of zero (checked under SpecFn).              *)
(***************************************************************************)
FitOnZeroHeight == FitDone /\ (probe.boxHeight = Zero \/ probe.imgHeight = Zero)

\* C12: a call of calculateAspectRatioFit with boxHeight = 0 or with a content
\* height of 0 ends in an error, and returns no fit rectangle.
C12_ZeroHeightRejected == FitOnZeroHeight => probe.threw

\* What the calls return instead: a rectangle of height 0, or one of NaNs.
C12_ReturnsDegenerateFit ==
    FitOnZeroHeight =>
        /\ ~probe.threw
        /\ \/ probe.out.height = Zero
           \/ IsNaN(probe.out.height)
           \/ IsNaN(probe.out.width)

(***************************************************************************)
(* The editor's pixel/percent layer (checked under SpecFn).                *)
(***************************************************************************)
PlaceDone == probe.op = "pixel" /\ probe.done

\* C15: for every pixel rectangle r, page size and (positive) scale, rendering
\* what was stored for r gives r back: percentageToPixel(pixelToPercentage(r))
\* = r; what is stored stays what pixelToPercentage gave at the time of storing
\* when the container width changes afterwards; and at every container width
\* the pixel rectangle is (percent / 100) * page size * scale, x from the left
\* and y from the top, with no flip.
C15_PixelPercentLayer ==
    PlaceDone =>
        LET placedScale == Div(probe.placedAt, probe.page.width)
            scale == Div(probe.containerWidth, probe.page.width)
            r == probe.r
        IN  /\ Gt(scale, Zero)
            /\ probe.stored = pixelToPercentage(r.x, r.y, r.width, r.height,
                                                placedScale, probe.page)
            /\ probe.containerWidth = probe.placedAt => probe.shown = r
            /\ Mul(probe.shown.x, Hundred)
                  = Mul(probe.stored.x, Mul(probe.page.width, scale))
            /\ Mul(probe.shown.y, Hundred)
                  = Mul(probe.stored.y, Mul(probe.page.height, scale))
            /\ Mul(probe.shown.width, Hundred)
                  = Mul(probe.stored.width, Mul(probe.page.width, scale))
            /\ Mul(probe.shown.height, Hundred)
                  = Mul(probe.stored.height, Mul(probe.page.height, scale))
            /\ Mul(probe.shown.x, probe.placedAt) = Mul(r.x, probe.containerWidth)
            /\ Mul(probe.shown.y, probe.placedAt) = Mul(r.y, probe.containerWidth)

\* A rectangle stored at container width 800 is shown at width 400: what is
\* stored is what was stored, what is shown is half as wide and half as far in.
C15_Witness ==
    /\ PlaceDone
    /\ probe.placedAt = Num(800)
    /\ probe.containerWidth = Num(400)
    /\ probe.r.x = Num(100)
    /\ probe.stored.x = Rat(25, 2)
    /\ probe.shown.x = Num(50)
    /\ probe.shown.width = Num(75)

(***************************************************************************)
(* The same request twice (checked under SpecSame).                        *)
(***************************************************************************)
AllDatesExplicit(fields) ==
    \A i \in 1..Len(fields) : fields[i].type = "date" => fields[i].value # ""

DrawnAlone(q, i, string) ==
    LET f == q.fields[i]
        pdfCoords == transformCoordinatesToPDF(f.coordinates, q.doc.page)
    IN  CASE f.type \in {"signature", "image"} -> imageMark(i, pdfCoords, f.imageData)
          [] f.type = "text" -> textRun(i, pdfCoords, f.value)
          [] f.type = "date" ->
                 textRun(i, pdfCoords, IF f.value # "" THEN f.value ELSE string)
          [] OTHER -> radioCircle(i, pdfCoords)

\* C14: of two requests for different documents served concurrently, each works
\* on the digest, the page size and the fields of its own document and request
\* only: every mark is the one the request draws alone for that field, the
\* marks are those of its own drawable fields in list order, the output is its
\* own document with its own marks, the digests are those of its own upload and
\* output, and each request that got past the audit step has its own record.
C14_Isolated ==
    /\ \A r \in Slots :
          LET h == handler[r]
              q == h.req
              passed == h.idx - 1
          IN  h.pc # "idle" =>
                /\ h.originalHash = calculateHash(Upload(q.doc))
                /\ h.pc \in {"fields", "auditing", "responding"} => h.page = q.doc.page
                /\ \A k \in DOMAIN h.marks :
                      /\ h.marks[k].field \in 1..Len(q.fields)
                      /\ h.marks[k]
                            = DrawnAlone(q, h.marks[k].field, h.marks[k].content)
                      /\ q.fields[h.marks[k].field].type = "date"
                            => h.marks[k].content \in Today
                /\ \A j, k \in DOMAIN h.marks :
                      j < k => h.marks[j].field < h.marks[k].field
                /\ \A i \in 1..Len(q.fields) :
                      (i <= passed /\ Renders(q.fields[i]))
                          <=> (\E k \in DOMAIN h.marks : h.marks[k].field = i)
                /\ h.signedHash # NoHash =>
                      /\ h.signedPdfBytes = Serialize(q.doc, h.marks)
                      /\ h.signedHash = calculateHash(h.signedPdfBytes)
                /\ resp[r].status = 200 =>
                      /\ resp[r].body = Serialize(q.doc, h.marks)
                      /\ resp[r].headers
                            = <<[name |-> "X-Original-Hash",
                                 value |-> calculateHash(Upload(q.doc))],
                                [name |-> "X-Signed-Hash",
                                 value |-> calculateHash(Serialize(q.doc, h.marks))]>>
                /\ Persisted(r) => \E k \in 1..Len(db) : db[k] = RecordOf(r)
    /\ Len(db) = Cardinality({r \in Slots : Persisted(r)})
    /\ \A k \in 1..Len(db) : \E r \in Slots : Persisted(r) /\ db[k] = RecordOf(r)

\* Both requests have answered with a document of two marks each, the record
\* of the second having been written before that of the first.
C14_Witness ==
    /\ resp[1].status = 200
    /\ resp[2].status = 200
    /\ Len(handler[1].marks) = 2
    /\ Len(handler[2].marks) = 2
    /\ handler[1].req.doc # handler[2].req.doc
    /\ db[1] = RecordOf(2)
    /\ db[2] = RecordOf(1)

(***************************************************************************)
(* Text, date and radio marks (checked under Spec).                        *)
(***************************************************************************)
Passed(r) == IF handler[r].pc = "idle" THEN 0 ELSE handler[r].idx - 1

RectOf(r, i) ==
    transformCoordinatesToPDF(FieldsOf(r)[i].coordinates, handler[r].req.doc.page)

MarksOf(r, i) == {k \in DOMAIN handler[r].marks : handler[r].marks[k].field = i}

IsTextRunIn(mark, rect) ==
    /\ mark.kind = "text"
    /\ mark.x = Add(rect.x, Num(5))
    /\ mark.y = Add(rect.y, Div(rect.height, Num(2)))
    /\ mark.size = MathMin(Mul(rect.height, Rat(6, 10)), Num(12))

\* C17 as stated: every text field and every date field the loop has
\* completed is drawn as exactly one text run at x = rect.x + 5,
\* y = rect.y + rect.height / 2, of size min(rect.height * 0.6, 12); the run of
\* a text field is its value, that of a date field its value or, when it has
\* none, the current date.
C17_EveryTextFieldDrawn ==
    \A r \in Slots : \A i \in 1..Passed(r) :
        LET f == FieldsOf(r)[i]
        IN  f.type \in {"text", "date"} =>
              /\ Cardinality(MarksOf(r, i)) = 1
              /\ \A k \in MarksOf(r, i) :
                    /\ IsTextRunIn(handler[r].marks[k], RectOf(r, i))
                    /\ f.value # "" => handler[r].marks[k].content = f.value
                    /\ f.value = "" => /\ f.type = "date"
                                       /\ handler[r].marks[k].content \in Today

\* C17, amended: every date field and every text field with a non-empty value
\* that the loop has completed is drawn as exactly one text run at
\* x = rect.x + 5, y = rect.y + rect.height / 2, of size
\* min(rect.height * 0.6, 12), the run being the value or, for a date field
\* without one, the current date; a text field with an empty value gets no run.
C17_NonEmptyTextDrawn ==
    \A r \in Slots : \A i \in 1..Passed(r) :
        LET f == FieldsOf(r)[i]
        IN  /\ (f.type = "date" \/ (f.type = "text" /\ f.value # "")) =>
                  /\ Cardinality(MarksOf(r, i)) = 1
                  /\ \A k \in MarksOf(r, i) :
                        /\ IsTextRunIn(handler[r].marks[k], RectOf(r, i))
                        /\ f.value # "" => handler[r].marks[k].content = f.value
                        /\ f.value = "" => handler[r].marks[k].content \in Today
            /\ (f.type = "text" /\ f.value = "") => MarksOf(r, i) = {}

\* A request with a text field of empty value and a date field without a value
\* was answered: the page carries one text run, the current date.
C17_Witness ==
    /\ resp[1].status = 200
    /\ Len(FieldsOf(1)) = 2
    /\ FieldsOf(1)[1].type = "text" /\ FieldsOf(1)[1].value = ""
    /\ FieldsOf(1)[2].type = "date" /\ FieldsOf(1)[2].value = ""
    /\ Len(handler[1].marks) = 1
    /\ handler[1].marks[1].field = 2
    /\ handler[1].marks[1].content \in Today

\* C18: every checked radio field the loop has completed is drawn as exactly
\* one circle centred on the field's rectangle, of radius min(width, height) / 3,
\* that lies inside the rectangle; an unchecked one has no mark.
C18_RadioCircle ==
    \A r \in Slots : \A i \in 1..Passed(r) :
        LET f == FieldsOf(r)[i]
            rect == RectOf(r, i)
        IN  f.type = "radio" =>
              IF f.checked
              THEN /\ Cardinality(MarksOf(r, i)) = 1
                   /\ \A k \in MarksOf(r, i) :
                        LET mark == handler[r].marks[k]
                        IN  /\ mark.kind = "circle"
                            /\ mark.x = Add(rect.x, Div(rect.width, Num(2)))
                            /\ mark.y = Add(rect.y, Div(rect.height, Num(2)))
                            /\ mark.size
                                  = Div(MathMin(rect.width, rect.height), Num(3))
                            /\ Gt(mark.size, Zero)
                            /\ Ge(Sub(mark.x, mark.size), rect.x)
                            /\ Le(Add(mark.x, mark.size), Add(rect.x, rect.width))
                            /\ Ge(Sub(mark.y, mark.size), rect.y)
                            /\ Le(Add(mark.y, mark.size), Add(rect.y, rect.height))
              ELSE MarksOf(r, i) = {}

\* A request with a checked and an unchecked radio button was answered: the page
\* carries the circle of the checked one and nothing else.
C18_Witness ==
    /\ resp[1].status = 200
    /\ Len(FieldsOf(1)) = 2
    /\ FieldsOf(1)[1].type = "radio" /\ ~FieldsOf(1)[1].checked
    /\ FieldsOf(1)[2].type = "radio" /\ FieldsOf(1)[2].checked
    /\ Len(handler[1].marks) = 1
    /\ handler[1].marks[1].kind = "circle"
    /\ handler[1].marks[1].field = 2

(***************************************************************************)
(* The editor (checked under SpecEditor).                                  *)
(***************************************************************************)
\* C16: after any sequence of editor operations every field of the list is in
\* range: 0 <= x, 0 <= y, x + width <= 100, y + height <= 100, width > 0 and
\* height > 0.
C16_FieldsInRange == \A k \in 1..Len(editor.fields) : InRange(editor.fields[k])

\* C19: selectedField is null or the id of a field of the list.
C19_SelectedFieldExists ==
    editor.selectedField = Null \/ editor.selectedField \in FieldIds(editor)

\* C20: each mouse movement of a resize from a corner leaves the resized
\* field's edges opposite to that corner where they were at mousedown (the right
\* edge for a west corner, the bottom edge for a north corner, the left edge for
\* an east corner, the top edge for a south corner), and leaves every other
\* field as it was.
C20_OppositeEdgesFixed ==
    [][(editor.gesture.kind = "resize" /\ editor'.clock # editor.clock) =>
          LET g == editor.gesture
              start == g.pixelCoords
              now == percentageToPixel(findField(editor', g.fieldId), g.scale, g.page)
          IN  /\ Includes(g.corner, "w")
                    => Add(now.x, now.width) = Add(start.x, start.width)
              /\ Includes(g.corner, "n")
                    => Add(now.y, now.height) = Add(start.y, start.height)
              /\ Includes(g.corner, "e") => now.x = start.x
              /\ Includes(g.corner, "s") => now.y = start.y
              /\ Len(editor'.fields) = Len(editor.fields)
              /\ \A k \in 1..Len(editor.fields) :
                    editor.fields[k].id # g.fieldId
                        => editor'.fields[k] = editor.fields[k]]_vars

\* The part of C20 that the code keeps: movements that leave the size above
\* its minimum, and the east and south corners.
C20_FixedAboveMinimum ==
    [][(editor.gesture.kind = "resize" /\ editor'.clock # editor.clock) =>
          LET g == editor.gesture
              start == g.pixelCoords
              now == percentageToPixel(findField(editor', g.fieldId), g.scale, g.page)
          IN  /\ (Includes(g.corner, "w") /\ Gt(now.width, Num(50)))
                    => Add(now.x, now.width) = Add(start.x, start.width)
              /\ (Includes(g.corner, "n") /\ Gt(now.height, Num(30)))
                    => Add(now.y, now.height) = Add(start.y, start.height)
              /\ Includes(g.corner, "e") => now.x = start.x
              /\ Includes(g.corner, "s") => now.y = start.y]_vars

====
